---- MODULE Spec2Model ----
(***************************************************************************)
(* Model of the log server of vaitekunas/journal (package server):         *)
(*   - the token store (server_tokens.go): AddToken, GetTokens,            *)
(*     RemoveToken, RemoveTokens and the tokens.db file they maintain;     *)
(*   - the gRPC authorization interceptor (logserver.go: Authorize and     *)
(*     the intercept closure of New);                                      *)
(*   - the listener lifecycle (logserver.go: New and Quit).                *)
(*                                                                         *)
(* A Go string is a sequence of one-character strings, so that             *)
(* strings.ToLower, strings.Split, strings.Join and the line scanner are   *)
(* computed as the code computes them.  A map is a function whose DOMAIN  *)
(* is the set of keys present.                                             *)
(***************************************************************************)
EXTENDS Integers, Sequences, FiniteSets, TLC

VARIABLES
    tokens,     \* l.tokens: the in-memory mapping key -> token
    file,       \* the content of tokens.db (l.tokenPath), a string
    ret,        \* sequential clients: the call that has just returned
    nfaults,    \* number of I/O faults the environment has injected
    hist,       \* "adds" while every call so far was a fault-free AddToken
    nlogged,    \* entries the logging collaborator has received
    nrestarts,  \* number of times the process has been started again
    lock,       \* the store's mutex: the task holding it, or NoHolder
    pc,         \* concurrent clients: where each task stands in its call
    loc,        \* concurrent clients: the call's arguments and locals
    okAdds,     \* successful AddToken calls per key while hist = "adds"
    committed,  \* the mapping as it was when the mutex was last free
    crashed,    \* the runtime has stopped the process on a map race
    ncalls,     \* concurrent clients: calls each task has made
    srv,        \* the LogServer of New: listeners, channels, counters
    task        \* where New, Quit and each goroutine of New stand

storeVars == <<tokens, file>>
seqVars == <<ret, nfaults, nlogged, nrestarts>>
concVars == <<lock, pc, loc, okAdds, committed, crashed, ncalls>>
lifeVars == <<srv, task>>
vars == <<tokens, file, hist, seqVars, concVars, lifeVars>>

----------------------------------------------------------------------------
(* Bounds of the model *)

\* AddToken is explored while the store holds fewer keys than this
MaxTokens == 2
\* I/O faults the environment injects in one behaviour
MaxFaults == 1
\* log entries the logging collaborator accepts in one behaviour
MaxLogged == 1
\* restarts of the process in one behaviour
MaxRestarts == 1
\* tasks calling the token store concurrently
NProcs == 2
\* calls each concurrent task makes in one behaviour
MaxCalls == 2
\* connections each listener accepts in one behaviour
MaxConns == 2

----------------------------------------------------------------------------
(* Strings *)

TAB == "\t"
NL == "\n"
SEP == "/"

EmptyMap == [k \in {} |-> <<>>]

\* service names a caller may pass: two letter cases of one name, another
\* service, a name that holds the separator
Services == { <<"a">>, <<"A">>, <<"b">>, <<"a", SEP, "b">> }

\* instance names a caller may pass; AddToken accepts every string
Instances == { <<"a">>, <<"A">>, <<"a", SEP, "b">>, <<TAB>>, <<NL>> }

\* the names of the authorization and fault scenarios
AuthNames == { <<"a">>, <<"A">>, <<"b">> }

\* hex digests produced by AddToken (one hex digit stands for the 64)
Tokens == { <<"1">>, <<"2">> }

\* strings.ToLower on one character
LowerChar(c) == IF c = "A" THEN "a" ELSE IF c = "B" THEN "b" ELSE c

\* strings.ToLower
ToLower(s) == [i \in 1..Len(s) |-> LowerChar(s[i])]

\* strings.Split(s, sep) for a one-character separator: the pieces between
\* the separators; a string without separator gives one piece, itself
RECURSIVE SplitFrom(_, _, _, _)
SplitFrom(s, sep, i, cur) ==
    IF i > Len(s) THEN <<cur>>
    ELSE IF s[i] = sep THEN <<cur>> \o SplitFrom(s, sep, i + 1, <<>>)
    ELSE SplitFrom(s, sep, i + 1, Append(cur, s[i]))

Split(s, sep) == SplitFrom(s, sep, 1, <<>>)

\* strings.Join(list, sep)
RECURSIVE Join(_, _)
Join(list, sep) ==
    IF Len(list) = 0 THEN <<>>
    ELSE IF Len(list) = 1 THEN list[1]
    ELSE list[1] \o sep \o Join(Tail(list), sep)

\* bufio.Scanner with the default ScanLines: the text between newlines;
\* what follows the last newline is a line only when it is not empty
ScanLines(f) ==
    LET pieces == Split(f, NL)
    IN IF pieces[Len(pieces)] = <<>> THEN SubSeq(pieces, 1, Len(pieces) - 1)
       ELSE pieces

\* the two tests both readers of tokens.db apply to a line before using it
LineParses(line) ==
    LET parts == Split(line, TAB)
    IN /\ Len(parts) = 2
       /\ Len(Split(parts[1], SEP)) = 2

----------------------------------------------------------------------------
(* Maps *)

MapPut(m, k, v) == [x \in DOMAIN m \cup {k} |-> IF x = k THEN v ELSE m[x]]

MapDel(m, k) == [x \in DOMAIN m \ {k} |-> m[x]]

\* the orders in which a range over a Go map may visit the keys S
Orders(S) ==
    { o \in [1..Cardinality(S) -> S] :
        \A i, j \in 1..Cardinality(S) : i # j => o[i] # o[j] }

----------------------------------------------------------------------------
(* The token store: server_tokens.go *)

\* getCleanKey: the case-folded pair joined by the separator
getCleanKey(service, instance) ==
    ToLower(service) \o <<SEP>> \o ToLower(instance)

\* the line writeTokenToFile appends: fmt.Sprintf("%s\t%s\n", key, token)
TokenLine(key, token) == key \o <<TAB>> \o token \o <<NL>>

\* faults of the file operations, named by the step that fails
WriteFaults == {"create", "open", "write", "close"}
RemoveFaults == {"create", "open", "close", "rewrite", "truncated"}
AddFaults == {"rand"} \cup WriteFaults

\* writeTokenToFile: the file afterwards and the error.  A failing Close
\* comes after the line has been written.
writeTokenToFile(f, key, token, fault) ==
    IF fault \in {"create", "open", "write"}
    THEN [file |-> f, err |-> "IOFailure"]
    ELSE IF fault = "close"
    THEN [file |-> f \o TokenLine(key, token), err |-> "IOFailure"]
    ELSE [file |-> f \o TokenLine(key, token), err |-> "nil"]

\* removeTokenFromFile: keeps the lines that parse and do not carry the key,
\* appends "\n" to the list and rewrites the file with the list joined by
\* "\n".  ioutil.WriteFile truncates before it writes: a failure of the
\* rewrite leaves the old content ("rewrite") or an empty file ("truncated").
removeTokenFromFile(f, key, fault) ==
    LET lines == ScanLines(f)
        kept == SelectSeq(lines,
                   LAMBDA line : LineParses(line) /\ Split(line, TAB)[1] # key)
    IN IF fault \in {"create", "open", "close", "rewrite"}
       THEN [file |-> f, err |-> "IOFailure"]
       ELSE IF fault = "truncated"
       THEN [file |-> <<>>, err |-> "IOFailure"]
       ELSE [file |-> Join(Append(kept, <<NL>>), <<NL>>), err |-> "nil"]

\* loadTokensFromDisk, after the file has been opened: every line that
\* parses sets l.tokens[parts[0]] = parts[1], a later line overriding an
\* earlier one; the other lines are skipped
RECURSIVE LoadLines(_, _, _)
LoadLines(t, lines, i) ==
    IF i > Len(lines) THEN t
    ELSE LET parts == Split(lines[i], TAB)
         IN IF LineParses(lines[i])
            THEN LoadLines(MapPut(t, parts[1], parts[2]), lines, i + 1)
            ELSE LoadLines(t, lines, i + 1)

loadTokensFromDisk(t, f) == LoadLines(t, ScanLines(f), 1)

\* an AddToken that skips the existence test and issues a new token
AddTokenCallOverwrite(t, f, service, instance, token, fault) ==
    LET key == getCleanKey(service, instance)
        w == writeTokenToFile(f, key, token, fault)
    IN [tokens |-> MapPut(t, key, token), file |-> w.file,
        token |-> token, err |-> "nil"]

\* AddToken, the whole call: the store afterwards, the token and the error
AddTokenCall(t, f, service, instance, token, fault) ==
    LET key == getCleanKey(service, instance)
        w == writeTokenToFile(f, key, token, fault)
    IN IF key \in DOMAIN t
       THEN [tokens |-> t, file |-> f, token |-> <<>>, err |-> "AlreadyExists"]
       ELSE IF fault = "rand"
       THEN [tokens |-> t, file |-> f, token |-> <<>>, err |-> "RandFailure"]
       ELSE IF w.err # "nil"
       THEN [tokens |-> t, file |-> w.file, token |-> <<>>, err |-> "IOFailure"]
       ELSE [tokens |-> MapPut(t, key, token), file |-> w.file,
             token |-> token, err |-> "nil"]

\* GetTokens when no other task runs: the copy of the mapping
GetTokensCopy(t) == [k \in DOMAIN t |-> t[k]]

\* a RemoveToken that rewrites the file before it tests the key
RemoveTokenCallFileFirst(t, f, service, instance, fault) ==
    LET key == getCleanKey(service, instance)
        r == removeTokenFromFile(f, key, fault)
    IN IF key \notin DOMAIN t
       THEN [tokens |-> t, file |-> r.file, err |-> "NotFound"]
       ELSE [tokens |-> MapDel(t, key), file |-> r.file, err |-> "nil"]

\* RemoveToken, the whole call
RemoveTokenCall(t, f, service, instance, fault) ==
    LET key == getCleanKey(service, instance)
        r == removeTokenFromFile(f, key, fault)
    IN IF key \notin DOMAIN t
       THEN [tokens |-> t, file |-> f, err |-> "NotFound"]
       ELSE IF r.err # "nil"
       THEN [tokens |-> t, file |-> r.file, err |-> "IOFailure"]
       ELSE [tokens |-> MapDel(t, key), file |-> r.file, err |-> "nil"]

\* RemoveTokens, first loop: the keys whose text before the first "/"
\* equals the service name as the caller passed it
ServiceKeys(t, service) ==
    { key \in DOMAIN t : Split(key, SEP)[1] = service }

\* RemoveTokens, second loop over the keys in the order the map gave them:
\* RemoveToken(parts[0], parts[1], false) for each, stopping at the first
\* error.  The fault, if any, hits the removal at position faultAt.
RECURSIVE RemoveLoop(_, _, _, _, _, _)
RemoveLoop(t, f, keys, i, fault, faultAt) ==
    IF i > Len(keys) THEN [tokens |-> t, file |-> f, err |-> "nil"]
    ELSE LET parts == Split(keys[i], SEP)
             r == RemoveTokenCall(t, f, parts[1], parts[2],
                                  IF i = faultAt THEN fault ELSE "none")
         IN IF r.err # "nil"
            THEN [tokens |-> r.tokens, file |-> r.file,
                  err |-> "RemoveTokensFailed"]
            ELSE RemoveLoop(r.tokens, r.file, keys, i + 1, fault, faultAt)

RemoveTokensCall(t, f, service, order, fault, faultAt) ==
    RemoveLoop(t, f, order, 1, fault, faultAt)

----------------------------------------------------------------------------
(* Authorization of an inbound RPC: logserver.go *)

MdKeys == {"service", "instance", "token"}

\* the values one metadata key may carry: none, one, or two
MdValues(vals) ==
    {<<>>} \cup { <<v>> : v \in vals } \cup { <<v, v>> : v \in {<<"a">>} }

\* the token a client may present: one AddToken issued, or another one
PresentedTokens == Tokens \cup { <<"3">> }

\* the contexts of inbound calls: without metadata, or with a metadata map
Contexts(names) ==
    { [ok |-> FALSE, md |-> [k \in MdKeys |-> <<>>]] } \cup
    { [ok |-> TRUE,
       md |-> [k \in MdKeys |-> IF k = "service" THEN s
                                ELSE IF k = "instance" THEN i ELSE tk]] :
        s \in MdValues(names), i \in MdValues(names),
        tk \in MdValues(PresentedTokens) }

\* a lookup key that keeps the letter case of the metadata
AuthorizeKeyRaw(md) == md["service"][1] \o <<SEP>> \o md["instance"][1]

\* the key Authorize looks up
AuthorizeKey(md) ==
    ToLower(md["service"][1]) \o <<SEP>> \o ToLower(md["instance"][1])

\* Authorize: the error it returns, "nil" for none
Authorize(ctx, t) ==
    IF ~ctx.ok THEN "MissingCredentials"
    ELSE IF \E k \in MdKeys : Len(ctx.md[k]) # 1 THEN "MissingCredentials"
    ELSE IF AuthorizeKey(ctx.md) \notin DOMAIN t THEN "UnknownIdentity"
    ELSE IF t[AuthorizeKey(ctx.md)] # ctx.md["token"][1] THEN "BadToken"
    ELSE "nil"

\* an interceptor that forwards every call
InterceptPassesAlways(ctx, t) == TRUE

\* the intercept closure of New: whether the handler runs
InterceptPasses(ctx, t) == Authorize(ctx, t) = "nil"

----------------------------------------------------------------------------
(* Calls made one at a time *)

NoRet == [op |-> "none"]

NoCall == [op |-> "none"]

\* the tasks of the server: New, the caller of Quit, and the goroutines New
\* starts (unix accept loop, unix dispatch loop, gRPC serve, watchdog, and
\* the task that stops the gRPC server)
Tasks == {"new", "quit", "accept", "dispatch", "serve", "watchdog", "stopper"}

InitTasks == [t \in Tasks |-> IF t = "new" THEN "listen_unix"
                              ELSE IF t = "quit" THEN "idle" ELSE "none"]

\* before New: nothing bound, no channel, no kill switch
InitServer ==
    [ listenUnix |-> "none",    \* "none", "open" or "closed"
      listenTCP |-> "none",
      inited |-> FALSE,         \* New has set the fields (lines 196..201)
      killswitches |-> <<>>,    \* the channels registered, by name
      chan |-> [c \in {"quitUnix", "quitTCP", "conn", "fail"} |-> 0],
                                \* values buffered in each channel (cap 1)
      handlers |-> 0,           \* HandleUnixRequest tasks running
      rpcs |-> 0,               \* RemoteLog handlers running
      stopped |-> FALSE,        \* server.Stop() has run
      wg |-> 0,                 \* the counter of l.wg
      qidx |-> [c \in {"quit", "watchdog"} |-> 1],
                                \* Quit's position in l.killswitches
      exited |-> FALSE,         \* os.Exit(1) has run
      nconns |-> 0,             \* unix connections accepted so far
      nrpcs |-> 0 ]             \* RPCs started so far

NoHolder == 0

Procs == 1..NProcs

Init ==
    /\ tokens = EmptyMap
    /\ file = <<>>
    /\ ret = NoRet
    /\ nfaults = 0
    /\ hist = "adds"
    /\ nlogged = 0
    /\ nrestarts = 0
    /\ lock = NoHolder
    /\ pc = [p \in Procs |-> "idle"]
    /\ loc = [p \in Procs |-> NoCall]
    /\ okAdds = EmptyMap
    /\ committed = EmptyMap
    /\ crashed = FALSE
    /\ ncalls = [p \in Procs |-> 0]
    /\ srv = InitServer
    /\ task = InitTasks

\* the environment may inject the fault
MayFault(fault) == fault = "none" \/ nfaults < MaxFaults

Faulted(fault) == IF fault = "none" THEN nfaults ELSE nfaults + 1

\* a client calls AddToken(service, instance); token is the digest drawn
AddToken(service, instance, token, fault) ==
    LET r == AddTokenCall(tokens, file, service, instance, token, fault)
    IN /\ ret = NoRet
       /\ MayFault(fault)
       /\ \/ getCleanKey(service, instance) \in DOMAIN tokens
          \/ Cardinality(DOMAIN tokens) < MaxTokens
       /\ tokens' = r.tokens
       /\ file' = r.file
       /\ ret' = [op |-> "AddToken", service |-> service,
                  instance |-> instance, fault |-> fault,
                  token |-> r.token, err |-> r.err]
       /\ nfaults' = Faulted(fault)
       /\ hist' = IF fault = "none" THEN hist ELSE "mixed"
       /\ UNCHANGED <<nlogged, nrestarts, concVars, lifeVars>>

\* a client calls GetTokens
GetTokens ==
    /\ ret = NoRet
    /\ ret' = [op |-> "GetTokens", out |-> GetTokensCopy(tokens)]
    /\ UNCHANGED <<tokens, file, nfaults, hist, nlogged, nrestarts, concVars, lifeVars>>

\* a client calls RemoveToken(service, instance, true)
RemoveToken(service, instance, fault) ==
    LET r == RemoveTokenCall(tokens, file, service, instance, fault)
    IN /\ ret = NoRet
       /\ MayFault(fault)
       /\ tokens' = r.tokens
       /\ file' = r.file
       /\ ret' = [op |-> "RemoveToken", service |-> service,
                  instance |-> instance, fault |-> fault, err |-> r.err]
       /\ nfaults' = Faulted(fault)
       /\ hist' = "mixed"
       /\ UNCHANGED <<nlogged, nrestarts, concVars, lifeVars>>

\* a client calls RemoveTokens(service)
RemoveTokens(service, fault) ==
    /\ ret = NoRet
    /\ MayFault(fault)
    /\ \E order \in Orders(ServiceKeys(tokens, service)) :
       \E faultAt \in IF fault = "none" THEN {0} ELSE 1..Len(order) :
          LET r == RemoveTokensCall(tokens, file, service, order,
                                    fault, faultAt)
          IN /\ tokens' = r.tokens
             /\ file' = r.file
             /\ ret' = [op |-> "RemoveTokens", service |-> service,
                        fault |-> fault, err |-> r.err]
    /\ nfaults' = Faulted(fault)
    /\ hist' = "mixed"
    /\ UNCHANGED <<nlogged, nrestarts, concVars, lifeVars>>

\* the process starts again: a fresh store loads tokens.db
Restart ==
    /\ ret = NoRet
    /\ nrestarts < MaxRestarts
    /\ nrestarts' = nrestarts + 1
    /\ tokens' = loadTokensFromDisk(EmptyMap, file)
    /\ ret' = [op |-> "Restart"]
    /\ hist' = "mixed"
    /\ UNCHANGED <<file, nfaults, nlogged, concVars, lifeVars>>

\* an inbound RemoteLog call goes through the interceptor; logfails is
\* whether the logger rejects the entry
Rpc(ctx, logfails) ==
    LET errAuth == Authorize(ctx, tokens)
        passes == InterceptPasses(ctx, tokens)
    IN /\ ret = NoRet
       /\ passes => nlogged < MaxLogged
       /\ nlogged' = IF passes THEN nlogged + 1 ELSE nlogged
       /\ ret' = [op |-> "Rpc", ctx |-> ctx, invoked |-> passes,
                  err |-> IF ~passes THEN errAuth
                          ELSE IF logfails THEN "RemoteLogFailed" ELSE "nil"]
       /\ UNCHANGED <<tokens, file, nfaults, hist, nrestarts, concVars, lifeVars>>

\* the caller has taken the result
Return ==
    /\ ret # NoRet
    /\ ret' = NoRet
    /\ UNCHANGED <<tokens, file, nfaults, hist, nlogged, nrestarts, concVars, lifeVars>>

\* the token store under every name a caller may pass
NextStore ==
    \/ \E s \in Services, i \in Instances, tk \in Tokens :
          AddToken(s, i, tk, "none")
    \/ GetTokens
    \/ \E s \in Services, i \in Instances : RemoveToken(s, i, "none")
    \/ \E s \in Services : RemoveTokens(s, "none")
    \/ Return

SpecStore == Init /\ [][NextStore]_vars

\* the token store when file operations fail
NextFault ==
    \/ \E s \in AuthNames, i \in AuthNames, tk \in Tokens,
          fault \in {"none"} \cup AddFaults : AddToken(s, i, tk, fault)
    \/ \E s \in AuthNames, i \in AuthNames,
          fault \in {"none"} \cup RemoveFaults : RemoveToken(s, i, fault)
    \/ \E s \in AuthNames, fault \in {"none"} \cup RemoveFaults :
          RemoveTokens(s, fault)
    \/ Restart
    \/ Return

SpecFault == Init /\ [][NextFault]_vars

\* authorization against a store that changes
NextAuth ==
    \/ \E s \in AuthNames, i \in AuthNames, tk \in Tokens :
          AddToken(s, i, tk, "none")
    \/ \E s \in AuthNames, i \in AuthNames : RemoveToken(s, i, "none")
    \/ \E ctx \in Contexts(AuthNames), logfails \in BOOLEAN :
          Rpc(ctx, logfails)
    \/ Return

SpecAuth == Init /\ [][NextAuth]_vars

----------------------------------------------------------------------------
(* Properties of the interceptor and of Authorize *)

\* the context of a call that presents exactly one value for each key
Ctx(service, instance, token) ==
    [ok |-> TRUE,
     md |-> [k \in MdKeys |-> IF k = "service" THEN <<service>>
                              ELSE IF k = "instance" THEN <<instance>>
                              ELSE <<token>>]]

\* C1: the logging collaborator receives an entry only in a step that is an
\* inbound call whose Authorize returned no error; when Authorize fails the
\* handler does not run and the caller gets the error of Authorize.
C1_HandlerOnlyWhenAuthorized ==
    [][ /\ nlogged' # nlogged =>
             /\ ret'.op = "Rpc"
             /\ Authorize(ret'.ctx, tokens) = "nil"
        /\ (ret'.op = "Rpc" /\ Authorize(ret'.ctx, tokens) # "nil") =>
             /\ nlogged' = nlogged
             /\ ~ret'.invoked
             /\ ret'.err = Authorize(ret'.ctx, tokens) ]_vars

\* a call was forwarded earlier and the present one has been denied
C1_Witness ==
    /\ nlogged = 1
    /\ ret.op = "Rpc"
    /\ ret.err \in {"MissingCredentials", "UnknownIdentity", "BadToken"}
    /\ ~ret.invoked

\* C2: the decision of Authorize for every metadata and store: missing or
\* repeated field first, then unknown key, then token mismatch, success only
\* on the exact stored token; the key is the one AddToken files the pair
\* under, so every letter case of an added pair is accepted with its token.
C2_AuthorizeDecision ==
    [][ /\ ret'.op = "Rpc" =>
             LET md == ret'.ctx.md
                 K == getCleanKey(md["service"][1], md["instance"][1])
             IN IF \E k \in MdKeys : Len(md[k]) # 1
                THEN ret'.err = "MissingCredentials"
                ELSE IF K \notin DOMAIN tokens
                THEN ret'.err = "UnknownIdentity"
                ELSE IF tokens[K] # md["token"][1]
                THEN ret'.err = "BadToken"
                ELSE ret'.invoked /\ ret'.err \in {"nil", "RemoteLogFailed"}
        /\ (ret'.op = "AddToken" /\ ret'.err = "nil") =>
             \A s \in AuthNames, i \in AuthNames :
                (ToLower(s) = ToLower(ret'.service)
                    /\ ToLower(i) = ToLower(ret'.instance))
                => Authorize(Ctx(s, i, ret'.token), tokens') = "nil" ]_vars

\* a call naming the service in upper case has been accepted
C2_Witness ==
    /\ ret.op = "Rpc"
    /\ ret.err = "nil"
    /\ ret.ctx.md["service"] = << <<"A">> >>
    /\ ret.ctx.md["instance"] = << <<"a">> >>

----------------------------------------------------------------------------
(* Properties of the token store, calls made one at a time *)

\* the case-folded composite key of a pair
FoldedKey(service, instance) == ToLower(service) \o <<SEP>> \o ToLower(instance)

\* the lines of the file, a trailing newline put back on each
FileLines(f) ==
    LET lines == ScanLines(f)
    IN { lines[n] \o <<NL>> : n \in 1..Len(lines) }

\* the key is filed under the service, for some instance a caller may name
BelongsTo(key, service) ==
    \E i \in Instances : FoldedKey(service, i) = key

\* C3: AddToken for a pair whose folded key the store does not hold
\* succeeds, and GetTokens then shows the returned token under that key;
\* AddToken for a pair whose folded key is held, in whatever letter case,
\* fails with the already-exists error and leaves the stored token (and the
\* rest of the store) as it was.  File operations are taken to succeed.
C3_AddThenList ==
    [][ (ret'.op = "AddToken" /\ ret'.fault = "none") =>
          LET K == FoldedKey(ret'.service, ret'.instance)
          IN IF K \notin DOMAIN tokens
             THEN /\ ret'.err = "nil"
                  /\ ret'.token \in Tokens
                  /\ K \in DOMAIN GetTokensCopy(tokens')
                  /\ GetTokensCopy(tokens')[K] = ret'.token
             ELSE /\ ret'.err = "AlreadyExists"
                  /\ tokens'[K] = tokens[K]
                  /\ tokens' = tokens
                  /\ file' = file ]_vars

\* an AddToken naming the service in upper case has found its key held
C3_Witness ==
    /\ ret.op = "AddToken"
    /\ ret.err = "AlreadyExists"
    /\ ret.service = <<"A">>
    /\ FoldedKey(ret.service, ret.instance) \in DOMAIN tokens

\* C4: RemoveToken for a key the store holds succeeds and GetTokens then no
\* longer has the key; RemoveToken for a key the store does not hold (so a
\* second RemoveToken of the same pair) fails with the not-found error and
\* changes neither the mapping nor the file.  File operations are taken to
\* succeed.
C4_RemoveThenList ==
    [][ (ret'.op = "RemoveToken" /\ ret'.fault = "none") =>
          LET K == FoldedKey(ret'.service, ret'.instance)
          IN IF K \in DOMAIN tokens
             THEN /\ ret'.err = "nil"
                  /\ K \notin DOMAIN GetTokensCopy(tokens')
             ELSE /\ ret'.err = "NotFound"
                  /\ tokens' = tokens
                  /\ file' = file ]_vars

\* a RemoveToken has failed on a store emptied by an earlier removal
C4_Witness ==
    /\ ret.op = "RemoveToken"
    /\ ret.err = "NotFound"
    /\ tokens = EmptyMap
    /\ Len(file) > 0

\* C5: RemoveTokens(s) removes from the mapping and from the file every
\* token filed under service s, whatever the letter case of s, and leaves
\* every token of another service in the mapping and in the file.
C5_RemoveTokensFrame ==
    [][ (ret'.op = "RemoveTokens" /\ ret'.fault = "none") =>
          \A k \in DOMAIN tokens :
             IF BelongsTo(k, ret'.service)
             THEN /\ k \notin DOMAIN tokens'
                  /\ TokenLine(k, tokens[k]) \notin FileLines(file')
             ELSE /\ k \in DOMAIN tokens'
                  /\ tokens'[k] = tokens[k]
                  /\ TokenLine(k, tokens[k]) \in FileLines(file)
                       => TokenLine(k, tokens[k]) \in FileLines(file') ]_vars

\* C6: after every completed AddToken, RemoveToken or RemoveTokens the
\* records read from the file are the in-memory mapping.
C6_FileEqualsMemory ==
    ret.op \in {"AddToken", "RemoveToken", "RemoveTokens"}
        => loadTokensFromDisk(EmptyMap, file) = tokens

\* C7: after successful AddToken calls on an empty store, a fresh store that
\* loads the file lists the same keys with the same tokens.
C7_RoundTrip ==
    hist = "adds" =>
        GetTokensCopy(loadTokensFromDisk(EmptyMap, file)) = GetTokensCopy(tokens)

----------------------------------------------------------------------------
(* The token store called by concurrent tasks.  Each task makes one call at
   a time; a call advances by the steps below.  l.Lock() blocks while
   another task holds the mutex. *)

\* names of the concurrent scenarios: one service in two letter cases
ConcServices == { <<"a">>, <<"A">> }
ConcInstances == { <<"a">>, <<"b">> }

\* a mutex that lets every caller in
CanLockAlways(holder) == TRUE

\* l.Lock() returns once no task holds the mutex
CanLock(holder) == holder = NoHolder

\* the tasks inside GetTokens, between its call and its return
Readers == { q \in Procs : loc[q].op = "GetTokens" /\ pc[q] # "done" }

\* the tasks whose range over l.tokens is under way
Ranging == { q \in Procs : pc[q] = "get_copy" /\ loc[q].started }

\* where a call stands after l.Lock() and after l.Unlock()
AfterLock(at) ==
    CASE at = "add_lock" -> "add_check"
      [] at = "get_lock" -> "get_unlock"
      [] at = "rm_lock" -> "rm_body"
      [] at = "rms_lock" -> "rms_collect"

AfterUnlock(at) == IF at = "get_unlock" THEN "get_copy" ELSE "done"

concFrame == UNCHANGED <<seqVars, lifeVars>>

\* a step inside a call
stepFrame == UNCHANGED <<seqVars, ncalls, lifeVars>>

\* a task calls AddToken(service, instance)
CallAddToken(p, service, instance) ==
    /\ ~crashed
    /\ pc[p] = "idle"
    /\ ncalls[p] < MaxCalls
    /\ ncalls' = [ncalls EXCEPT ![p] = @ + 1]
    /\ pc' = [pc EXCEPT ![p] = "add_lock"]
    /\ loc' = [loc EXCEPT ![p] = [op |-> "AddToken", service |-> service,
                                  instance |-> instance, err |-> "pending"]]
    /\ okAdds' = IF hist = "adds"
                    /\ getCleanKey(service, instance) \notin DOMAIN okAdds
                 THEN MapPut(okAdds, getCleanKey(service, instance), 0)
                 ELSE okAdds
    /\ UNCHANGED <<tokens, file, hist, lock, committed, crashed>>
    /\ concFrame

\* a task calls GetTokens
CallGetTokens(p) ==
    /\ ~crashed
    /\ pc[p] = "idle"
    /\ ncalls[p] < MaxCalls
    /\ ncalls' = [ncalls EXCEPT ![p] = @ + 1]
    /\ pc' = [pc EXCEPT ![p] = "get_lock"]
    /\ loc' = [loc EXCEPT ![p] = [op |-> "GetTokens", out |-> EmptyMap,
                                  started |-> FALSE, start |-> {},
                                  visited |-> {}, snaps |-> {committed},
                                  underLock |-> FALSE]]
    /\ UNCHANGED <<tokens, file, hist, lock, okAdds, committed, crashed>>
    /\ concFrame

\* a task calls RemoveToken(service, instance, true)
CallRemoveToken(p, service, instance) ==
    /\ ~crashed
    /\ pc[p] = "idle"
    /\ ncalls[p] < MaxCalls
    /\ ncalls' = [ncalls EXCEPT ![p] = @ + 1]
    /\ pc' = [pc EXCEPT ![p] = "rm_lock"]
    /\ loc' = [loc EXCEPT ![p] = [op |-> "RemoveToken", service |-> service,
                                  instance |-> instance, err |-> "pending"]]
    /\ hist' = "mixed"
    /\ okAdds' = EmptyMap
    /\ UNCHANGED <<tokens, file, lock, committed, crashed>>
    /\ concFrame

\* a task calls RemoveTokens(service)
CallRemoveTokens(p, service) ==
    /\ ~crashed
    /\ pc[p] = "idle"
    /\ ncalls[p] < MaxCalls
    /\ ncalls' = [ncalls EXCEPT ![p] = @ + 1]
    /\ pc' = [pc EXCEPT ![p] = "rms_lock"]
    /\ loc' = [loc EXCEPT ![p] = [op |-> "RemoveTokens", service |-> service,
                                  keys |-> <<>>, idx |-> 1, err |-> "pending"]]
    /\ hist' = "mixed"
    /\ okAdds' = EmptyMap
    /\ UNCHANGED <<tokens, file, lock, committed, crashed>>
    /\ concFrame

\* l.Lock()
LockStep(p) ==
    /\ ~crashed
    /\ pc[p] \in {"add_lock", "get_lock", "rm_lock", "rms_lock"}
    /\ CanLock(lock)
    /\ lock' = p
    /\ pc' = [pc EXCEPT ![p] = AfterLock(pc[p])]
    /\ UNCHANGED <<tokens, file, hist, loc, okAdds, committed, crashed>>
    /\ stepFrame

\* l.Unlock(): deferred in AddToken, RemoveToken and RemoveTokens, and the
\* statement right after l.Lock() in GetTokens
UnlockStep(p) ==
    /\ ~crashed
    /\ pc[p] \in {"add_unlock", "get_unlock", "rm_unlock", "rms_unlock"}
    /\ lock' = NoHolder
    /\ committed' = tokens
    /\ pc' = [pc EXCEPT ![p] = AfterUnlock(pc[p])]
    /\ loc' = [q \in Procs |->
                 IF q \in Readers
                 THEN [loc[q] EXCEPT !.snaps = @ \cup {tokens}]
                 ELSE loc[q]]
    /\ UNCHANGED <<tokens, file, hist, okAdds, crashed>>
    /\ stepFrame

\* a write to l.tokens while another task ranges over it is a data race:
\* the write goes through, or the runtime detects it and stops the process
RaceOutcome ==
    \/ crashed' = FALSE
    \/ Ranging # {} /\ crashed' = TRUE

\* AddToken: the test that the key is absent
AddCheck(p) ==
    LET key == getCleanKey(loc[p].service, loc[p].instance)
    IN /\ ~crashed
       /\ pc[p] = "add_check"
       /\ IF key \in DOMAIN tokens
          THEN /\ loc' = [loc EXCEPT ![p].err = "AlreadyExists"]
               /\ pc' = [pc EXCEPT ![p] = "add_unlock"]
          ELSE /\ loc' = loc
               /\ pc' = [pc EXCEPT ![p] = "add_store"]
       /\ UNCHANGED <<tokens, file, hist, lock, okAdds, committed, crashed>>
       /\ stepFrame

\* AddToken: the token is drawn, appended to the file and assigned in memory
AddStore(p, token) ==
    LET key == getCleanKey(loc[p].service, loc[p].instance)
        w == writeTokenToFile(file, key, token, "none")
    IN /\ ~crashed
       /\ pc[p] = "add_store"
       /\ file' = w.file
       /\ tokens' = MapPut(tokens, key, token)
       /\ RaceOutcome
       /\ loc' = [loc EXCEPT ![p] = [op |-> "AddToken",
                                     service |-> loc[p].service,
                                     instance |-> loc[p].instance,
                                     token |-> token, err |-> "nil"]]
       /\ okAdds' = IF hist = "adds" /\ okAdds[key] < 2
                    THEN [okAdds EXCEPT ![key] = @ + 1] ELSE okAdds
       /\ pc' = [pc EXCEPT ![p] = "add_unlock"]
       /\ UNCHANGED <<hist, lock, committed>>
       /\ stepFrame

\* GetTokens: one turn of the range over l.tokens copies one entry not yet
\* visited
GetCopyEntry(p) ==
    /\ ~crashed
    /\ pc[p] = "get_copy"
    /\ \E k \in DOMAIN tokens \ loc[p].visited :
          loc' = [loc EXCEPT ![p] =
                    [op |-> "GetTokens",
                     started |-> TRUE,
                     start |-> IF loc[p].started THEN loc[p].start
                               ELSE DOMAIN tokens,
                     out |-> MapPut(loc[p].out, k, tokens[k]),
                     visited |-> loc[p].visited \cup {k},
                     snaps |-> loc[p].snaps,
                     underLock |-> loc[p].underLock
                                     \/ lock \notin {NoHolder, p}]]
    /\ UNCHANGED <<tokens, file, hist, lock, pc, okAdds, committed, crashed>>
    /\ stepFrame

\* GetTokens: the range ends once every entry that was there when it began,
\* and still is, has been visited (an entry created meanwhile may be
\* skipped), and the copy is returned
GetReturn(p) ==
    /\ ~crashed
    /\ pc[p] = "get_copy"
    /\ (IF loc[p].started THEN loc[p].start ELSE DOMAIN tokens)
          \cap DOMAIN tokens \subseteq loc[p].visited
    /\ pc' = [pc EXCEPT ![p] = "done"]
    /\ UNCHANGED <<tokens, file, hist, lock, loc, okAdds, committed, crashed>>
    /\ stepFrame

\* RemoveToken under the mutex: test, file rewrite and delete
RemoveBody(p) ==
    LET r == RemoveTokenCall(tokens, file, loc[p].service, loc[p].instance,
                             "none")
    IN /\ ~crashed
       /\ pc[p] = "rm_body"
       /\ tokens' = r.tokens
       /\ file' = r.file
       /\ IF tokens' # tokens THEN RaceOutcome ELSE crashed' = crashed
       /\ loc' = [loc EXCEPT ![p].err = r.err]
       /\ pc' = [pc EXCEPT ![p] = "rm_unlock"]
       /\ UNCHANGED <<hist, lock, okAdds, committed>>
       /\ stepFrame

\* RemoveTokens: the first loop collects the keys of the service, in the
\* order the map gives them
RemoveCollect(p) ==
    /\ ~crashed
    /\ pc[p] = "rms_collect"
    /\ \E order \in Orders(ServiceKeys(tokens, loc[p].service)) :
          loc' = [loc EXCEPT ![p].keys = order]
    /\ pc' = [pc EXCEPT ![p] = "rms_loop"]
    /\ UNCHANGED <<tokens, file, hist, lock, okAdds, committed, crashed>>
    /\ stepFrame

\* RemoveTokens: one turn of the second loop, or its end
RemoveNext(p) ==
    LET keys == loc[p].keys
        i == loc[p].idx
        parts == Split(keys[i], SEP)
        r == RemoveTokenCall(tokens, file, parts[1], parts[2], "none")
    IN /\ ~crashed
       /\ pc[p] = "rms_loop"
       /\ IF i > Len(keys)
          THEN /\ loc' = [loc EXCEPT ![p].err = "nil"]
               /\ pc' = [pc EXCEPT ![p] = "rms_unlock"]
               /\ UNCHANGED <<tokens, file, crashed>>
          ELSE /\ tokens' = r.tokens
               /\ file' = r.file
               /\ IF tokens' # tokens THEN RaceOutcome
                  ELSE crashed' = crashed
               /\ IF r.err # "nil"
                  THEN /\ loc' = [loc EXCEPT ![p].err = "RemoveTokensFailed"]
                       /\ pc' = [pc EXCEPT ![p] = "rms_unlock"]
                  ELSE /\ loc' = [loc EXCEPT ![p].idx = i + 1]
                       /\ pc' = pc
       /\ UNCHANGED <<hist, lock, okAdds, committed>>
       /\ stepFrame

\* the caller has taken the result of its call
CallReturn(p) ==
    /\ ~crashed
    /\ pc[p] = "done"
    /\ pc' = [pc EXCEPT ![p] = "idle"]
    /\ loc' = [loc EXCEPT ![p] = NoCall]
    /\ UNCHANGED <<tokens, file, hist, lock, okAdds, committed, crashed>>
    /\ stepFrame

NextConc ==
    \E p \in Procs :
        \/ \E s \in ConcServices, i \in ConcInstances : CallAddToken(p, s, i)
        \/ CallGetTokens(p)
        \/ \E s \in ConcServices, i \in ConcInstances :
              CallRemoveToken(p, s, i)
        \/ \E s \in ConcServices : CallRemoveTokens(p, s)
        \/ LockStep(p)
        \/ UnlockStep(p)
        \/ AddCheck(p)
        \/ \E tk \in Tokens : AddStore(p, tk)
        \/ GetCopyEntry(p)
        \/ GetReturn(p)
        \/ RemoveBody(p)
        \/ RemoveCollect(p)
        \/ RemoveNext(p)
        \/ CallReturn(p)

SpecConc == Init /\ [][NextConc]_vars

----------------------------------------------------------------------------
(* Properties of the token store under concurrent calls *)

\* no task is inside a call
Quiescent == \A p \in Procs : pc[p] \in {"idle", "done"}

\* the lines of the keys, in the given order
RECURSIVE LinesOf(_, _)
LinesOf(order, t) ==
    IF Len(order) = 0 THEN <<>>
    ELSE TokenLine(order[1], t[order[1]]) \o LinesOf(Tail(order), t)

\* C8: while only AddToken has been called on the empty store, no key is
\* ever added twice, and once the calls have returned exactly one call per
\* key has succeeded (every call, when the keys are distinct), the mapping
\* holds exactly those keys, and the file is one whole "key<TAB>token" line
\* per key, in some order, nothing lost, repeated or interleaved.
C8_ConcurrentAdds ==
    hist = "adds" =>
        /\ \A k \in DOMAIN okAdds : okAdds[k] <= 1
        /\ Quiescent =>
              /\ \A k \in DOMAIN okAdds : okAdds[k] = 1
              /\ DOMAIN tokens = DOMAIN okAdds
              /\ Len(ScanLines(file)) = Cardinality(DOMAIN okAdds)
              /\ \E order \in Orders(DOMAIN tokens) :
                    file = LinesOf(order, tokens)
              /\ \A p \in Procs : loc[p].op = "AddToken" =>
                    loc[p].err \in {"nil", "AlreadyExists"}

\* a task waits for the mutex with the key another task has just stored,
\* both inside AddToken
C8_Witness ==
    /\ hist = "adds"
    /\ pc[1] = "add_unlock" /\ loc[1].err = "nil"
    /\ pc[2] = "add_lock"
    /\ getCleanKey(loc[1].service, loc[1].instance)
         = getCleanKey(loc[2].service, loc[2].instance)

\* C9: the copy GetTokens returns is the mapping as it was at one instant
\* between call and return at which no mutation was under way, and no entry
\* of it was read while another task held the mutex.
C9_SnapshotCopy ==
    \A p \in Procs :
        (pc[p] = "done" /\ loc[p].op = "GetTokens") =>
            /\ loc[p].out \in loc[p].snaps
            /\ ~loc[p].underLock

----------------------------------------------------------------------------
(* The listener lifecycle: New and Quit of logserver.go.  A buffered
   channel of capacity 1 is the number of values it holds; a send blocks
   while it holds one, a receive while it holds none. *)

lifeFrame == UNCHANGED <<tokens, file, hist, seqVars, concVars>>

\* the process is running
Live == ~srv.exited

\* New, line 147: net.Listen on the unix socket; bound is whether it binds
NewListenUnix(bound) ==
    /\ Live
    /\ task["new"] = "listen_unix"
    /\ IF bound
       THEN /\ srv' = [srv EXCEPT !.listenUnix = "open"]
            /\ task' = [task EXCEPT !["new"] = "spawn_unix"]
       ELSE /\ srv' = srv
            /\ task' = [task EXCEPT !["new"] = "failed"]
    /\ lifeFrame

\* New, lines 153..178: the kill switch and the connection channel are made,
\* the kill switch is registered, the accept and dispatch goroutines start
NewSpawnUnix ==
    /\ Live
    /\ task["new"] = "spawn_unix"
    /\ srv' = [srv EXCEPT !.killswitches = Append(@, "quitUnix")]
    /\ task' = [task EXCEPT !["new"] = "listen_tcp",
                            !["accept"] = "accept",
                            !["dispatch"] = "select"]
    /\ lifeFrame

\* New, lines 181..185: net.Listen on tcp; on failure the unix listener is
\* closed and New returns the error
NewListenTCP(bound) ==
    /\ Live
    /\ task["new"] = "listen_tcp"
    /\ IF bound
       THEN /\ srv' = [srv EXCEPT !.listenTCP = "open"]
            /\ task' = [task EXCEPT !["new"] = "init"]
       ELSE /\ srv' = [srv EXCEPT !.listenUnix = "closed"]
            /\ task' = [task EXCEPT !["new"] = "failed"]
    /\ lifeFrame

\* New, lines 196..201: the fields of the server are set, the token mapping
\* is made
NewInit ==
    /\ Live
    /\ task["new"] = "init"
    /\ srv' = [srv EXCEPT !.inited = TRUE]
    /\ task' = [task EXCEPT !["new"] = "spawn_tcp"]
    /\ lifeFrame

\* New, lines 204..232: the second kill switch is registered; the serve,
\* watchdog and stop goroutines start
NewSpawnTCP ==
    /\ Live
    /\ task["new"] = "spawn_tcp"
    /\ srv' = [srv EXCEPT !.killswitches = Append(@, "quitTCP")]
    /\ task' = [task EXCEPT !["new"] = "logger",
                            !["serve"] = "serving",
                            !["watchdog"] = "select",
                            !["stopper"] = "wait"]
    /\ lifeFrame

\* New, lines 235..241: the local logger is made, or New returns its error
NewLogger(made) ==
    /\ Live
    /\ task["new"] = "logger"
    /\ task' = [task EXCEPT !["new"] = IF made THEN "ready" ELSE "failed"]
    /\ UNCHANGED srv
    /\ lifeFrame

\* accept loop, line 159: Accept returns a connection
AcceptConn ==
    /\ Live
    /\ task["accept"] = "accept"
    /\ srv.listenUnix = "open"
    /\ srv.nconns < MaxConns
    /\ srv' = [srv EXCEPT !.nconns = @ + 1]
    /\ task' = [task EXCEPT !["accept"] = "send"]
    /\ lifeFrame

\* accept loop, lines 160..162: Accept on the closed listener returns an
\* error and the loop goes round
AcceptError ==
    /\ Live
    /\ task["accept"] = "accept"
    /\ srv.listenUnix = "closed"
    /\ UNCHANGED <<srv, task>>
    /\ lifeFrame

\* accept loop, line 163: connChan <- fd
AcceptSend ==
    /\ Live
    /\ task["accept"] = "send"
    /\ srv.chan["conn"] = 0
    /\ srv' = [srv EXCEPT !.chan["conn"] = 1]
    /\ task' = [task EXCEPT !["accept"] = "accept"]
    /\ lifeFrame

\* dispatch loop, lines 172..173: a connection is received and its
\* HandleUnixRequest task starts
DispatchConn ==
    /\ Live
    /\ task["dispatch"] = "select"
    /\ srv.chan["conn"] = 1
    /\ srv' = [srv EXCEPT !.chan["conn"] = 0, !.handlers = @ + 1]
    /\ UNCHANGED task
    /\ lifeFrame

\* dispatch loop, lines 174..175: the kill switch is received, the loop ends
DispatchQuit ==
    /\ Live
    /\ task["dispatch"] = "select"
    /\ srv.chan["quitUnix"] = 1
    /\ srv' = [srv EXCEPT !.chan["quitUnix"] = 0]
    /\ task' = [task EXCEPT !["dispatch"] = "exited"]
    /\ lifeFrame

\* a HandleUnixRequest task finishes
HandlerDone ==
    /\ Live
    /\ srv.handlers > 0
    /\ srv' = [srv EXCEPT !.handlers = @ - 1]
    /\ UNCHANGED task
    /\ lifeFrame

\* Serve, line 208: an RPC arrives and its handler starts
ServeRpc ==
    /\ Live
    /\ task["serve"] = "serving"
    /\ srv.listenTCP = "open"
    /\ ~srv.stopped
    /\ srv.nrpcs < MaxConns
    /\ srv' = [srv EXCEPT !.nrpcs = @ + 1, !.rpcs = @ + 1]
    /\ UNCHANGED task
    /\ lifeFrame

\* an RPC handler (interceptor and RemoteLog) finishes
RpcDone ==
    /\ Live
    /\ srv.rpcs > 0
    /\ srv' = [srv EXCEPT !.rpcs = @ - 1]
    /\ UNCHANGED task
    /\ lifeFrame

\* Serve, line 208: Serve returns an error (the listener fails or has been
\* closed), or returns nil after server.Stop()
ServeReturn(failed) ==
    /\ Live
    /\ task["serve"] = "serving"
    /\ ~failed => srv.stopped
    /\ task' = [task EXCEPT !["serve"] = IF failed THEN "fail_send"
                                         ELSE "exited"]
    /\ UNCHANGED srv
    /\ lifeFrame

\* serve goroutine, line 209: failChan <- errTCP
ServeSendFail ==
    /\ Live
    /\ task["serve"] = "fail_send"
    /\ srv.chan["fail"] = 0
    /\ srv' = [srv EXCEPT !.chan["fail"] = 1]
    /\ task' = [task EXCEPT !["serve"] = "exited"]
    /\ lifeFrame

\* a watchdog that ends the process without calling Quit
WatchdogFailNoQuit ==
    /\ Live
    /\ task["watchdog"] = "select"
    /\ srv.chan["fail"] = 1
    /\ srv' = [srv EXCEPT !.chan["fail"] = 0]
    /\ task' = [task EXCEPT !["watchdog"] = "returned"]
    /\ lifeFrame

\* watchdog, lines 216..219: the failure is received; Quit is called next
WatchdogFail ==
    /\ Live
    /\ task["watchdog"] = "select"
    /\ srv.chan["fail"] = 1
    /\ srv' = [srv EXCEPT !.chan["fail"] = 0]
    /\ task' = [task EXCEPT !["watchdog"] = "q_send"]
    /\ lifeFrame

\* watchdog, line 222: the 10 seconds elapse
WatchdogTimeout ==
    /\ Live
    /\ task["watchdog"] = "select"
    /\ task' = [task EXCEPT !["watchdog"] = "done"]
    /\ UNCHANGED srv
    /\ lifeFrame

\* watchdog, line 220: os.Exit(1) once its Quit has returned
WatchdogExit ==
    /\ Live
    /\ task["watchdog"] = "returned"
    /\ srv' = [srv EXCEPT !.exited = TRUE]
    /\ task' = [task EXCEPT !["watchdog"] = "done"]
    /\ lifeFrame

\* stop goroutine, line 229: the kill switch is received
StopperWake ==
    /\ Live
    /\ task["stopper"] = "wait"
    /\ srv.chan["quitTCP"] = 1
    /\ srv' = [srv EXCEPT !.chan["quitTCP"] = 0]
    /\ task' = [task EXCEPT !["stopper"] = "stopping"]
    /\ lifeFrame

\* stop goroutine, line 230: server.Stop() closes the listener it serves
StopperStop ==
    /\ Live
    /\ task["stopper"] = "stopping"
    /\ srv' = [srv EXCEPT !.stopped = TRUE, !.listenTCP = "closed"]
    /\ task' = [task EXCEPT !["stopper"] = "done"]
    /\ lifeFrame

\* the owner of the server New returned calls Quit
QuitCall ==
    /\ Live
    /\ task["new"] = "ready"
    /\ task["quit"] = "idle"
    /\ task' = [task EXCEPT !["quit"] = "q_send"]
    /\ UNCHANGED srv
    /\ lifeFrame

\* Quit, lines 110..112, called by c: the next kill switch is sent true, or
\* the loop ends
QuitSend(c) ==
    LET i == srv.qidx[c]
    IN /\ Live
       /\ task[c] = "q_send"
       /\ IF i > Len(srv.killswitches)
          THEN /\ task' = [task EXCEPT ![c] = "q_close_unix"]
               /\ srv' = srv
          ELSE /\ srv.chan[srv.killswitches[i]] = 0
               /\ srv' = [srv EXCEPT !.chan[srv.killswitches[i]] = 1,
                                     !.qidx[c] = i + 1]
               /\ task' = task
       /\ lifeFrame

\* Quit, lines 114..116: the unix listener is closed
QuitCloseUnix(c) ==
    /\ Live
    /\ task[c] = "q_close_unix"
    /\ srv' = [srv EXCEPT !.listenUnix = "closed"]
    /\ task' = [task EXCEPT ![c] = "q_close_tcp"]
    /\ lifeFrame

\* Quit, lines 118..120: the tcp listener is closed
QuitCloseTCP(c) ==
    /\ Live
    /\ task[c] = "q_close_tcp"
    /\ srv' = [srv EXCEPT !.listenTCP = "closed"]
    /\ task' = [task EXCEPT ![c] = "q_wait"]
    /\ lifeFrame

\* sync.WaitGroup.Wait returns when the counter is zero
WaitDone(n) == n = 0

\* Quit, line 122: l.wg.Wait(), then Quit returns
QuitWait(c) ==
    /\ Live
    /\ task[c] = "q_wait"
    /\ WaitDone(srv.wg)
    /\ task' = [task EXCEPT ![c] = "returned"]
    /\ UNCHANGED srv
    /\ lifeFrame

NextLife ==
    \/ \E bound \in BOOLEAN : NewListenUnix(bound)
    \/ NewSpawnUnix
    \/ \E bound \in BOOLEAN : NewListenTCP(bound)
    \/ NewInit
    \/ NewSpawnTCP
    \/ \E made \in BOOLEAN : NewLogger(made)
    \/ AcceptConn
    \/ AcceptError
    \/ AcceptSend
    \/ DispatchConn
    \/ DispatchQuit
    \/ HandlerDone
    \/ ServeRpc
    \/ RpcDone
    \/ \E failed \in BOOLEAN : ServeReturn(failed)
    \/ ServeSendFail
    \/ WatchdogFail
    \/ WatchdogTimeout
    \/ WatchdogExit
    \/ StopperWake
    \/ StopperStop
    \/ QuitCall
    \/ \E c \in {"quit", "watchdog"} :
          QuitSend(c) \/ QuitCloseUnix(c) \/ QuitCloseTCP(c) \/ QuitWait(c)

SpecLife == Init /\ [][NextLife]_vars

\* C10: when Quit has returned, no HandleUnixRequest task and no RPC handler
\* that was started is still running.
C10_QuitWaitsForHandlers ==
    \A c \in {"quit", "watchdog"} :
        task[c] = "returned" => srv.handlers = 0 /\ srv.rpcs = 0

----------------------------------------------------------------------------
(* The lifecycle when every task that can run does run *)

\* Serve returns once its listener is closed or the server was stopped
ServeEnds ==
    /\ srv.listenTCP = "closed" \/ srv.stopped
    /\ \E failed \in BOOLEAN : ServeReturn(failed)

\* the scheduler runs every goroutine that is able to take a step; a
\* handler that was started finishes
LifeFairness ==
    /\ WF_vars(AcceptError)
    /\ WF_vars(AcceptSend)
    /\ WF_vars(DispatchConn)
    /\ WF_vars(DispatchQuit)
    /\ WF_vars(HandlerDone)
    /\ WF_vars(RpcDone)
    /\ WF_vars(ServeEnds)
    /\ WF_vars(ServeSendFail)
    /\ WF_vars(WatchdogFail)
    /\ WF_vars(WatchdogTimeout)
    /\ WF_vars(WatchdogExit)
    /\ WF_vars(StopperWake)
    /\ WF_vars(StopperStop)
    /\ \A c \in {"quit", "watchdog"} :
          /\ WF_vars(QuitSend(c))
          /\ WF_vars(QuitCloseUnix(c))
          /\ WF_vars(QuitCloseTCP(c))
          /\ WF_vars(QuitWait(c))

SpecLifeFair == Init /\ [][NextLife]_vars /\ LifeFairness

\* C11: once Quit has been called, the accept loop, the dispatch loop and
\* the serve task are eventually all stopped and the accept loop holds no
\* accepted connection (the loops are stopped too when the process exited).
C11_LoopsStopAfterQuit ==
    (task["quit"] = "q_send") ~>
        \/ srv.exited
        \/ /\ task["accept"] = "exited"
           /\ task["dispatch"] = "exited"
           /\ task["serve"] = "exited"

----------------------------------------------------------------------------
(* The watchdog of New *)

\* the watchdog's Quit has sent on every kill switch and closed both
\* listeners
WatchdogQuitDone ==
    /\ Len(srv.killswitches) = 2
    /\ srv.qidx["watchdog"] > Len(srv.killswitches)
    /\ srv.listenUnix = "closed"
    /\ srv.listenTCP = "closed"

----------------------------------------------------------------------------
(* Failure of New to bind *)

\* New has returned the error of a failed net.Listen
BindFailed == task["new"] = "failed" /\ srv.listenTCP = "none"

\* C13: once New has returned a bind error, no bound listener is open, no
\* further connection is accepted and no connection is handed to a
\* HandleUnixRequest task.
C13_BindFailureTearsDown ==
    [][ BindFailed =>
          /\ srv.listenUnix # "open"
          /\ srv'.nconns = srv.nconns
          /\ srv'.handlers <= srv.handlers ]_vars

----------------------------------------------------------------------------
(* The management console: manager.go *)

\* command names as the client sends them
NameTokensAdd == <<"t","o","k","e","n","s",".","a","d","d">>
NameTokensAddUpper == <<"t","o","k","e","n","s",".","A","d","d">>
NameTokensRemoveInstance ==
    <<"t","o","k","e","n","s",".","r","e","m","o","v","e",".",
      "i","n","s","t","a","n","c","e">>
NameTokensRemoveService ==
    <<"t","o","k","e","n","s",".","r","e","m","o","v","e",".",
      "s","e","r","v","i","c","e">>
NameTokensListInstances ==
    <<"t","o","k","e","n","s",".","l","i","s","t",".",
      "i","n","s","t","a","n","c","e","s">>
NameTokensListServices ==
    <<"t","o","k","e","n","s",".","l","i","s","t",".",
      "s","e","r","v","i","c","e","s">>
NameStatistics == <<"s","t","a","t","i","s","t","i","c","s">>
NameUnknown == <<"x">>

Commands ==
    { NameTokensAdd, NameTokensAddUpper, NameTokensRemoveInstance,
      NameTokensRemoveService, NameTokensListInstances,
      NameTokensListServices, NameStatistics, NameUnknown }

\* a value of an argument bag (interface{}): a string, a number, or nil
ArgValues ==
    { [kind |-> "string", val |-> s] : s \in AuthNames } \cup
    { [kind |-> "float64", val |-> <<>>], [kind |-> "nil", val |-> <<>>] }

ArgNames == {"service", "instance"}

\* the argument bags (unixsock.Args) a client may send
ArgBags == UNION { [D -> ArgValues] : D \in SUBSET ArgNames }

\* the required arguments of tokens.add and of tokens.list.instances
RequiredAdd ==
    << [Name |-> "service", Kind |-> "string"],
       [Name |-> "instance", Kind |-> "string"] >>
RequiredListInstances == << [Name |-> "service", Kind |-> "string"] >>

\* validArguments from position i on: "true", "false", or "panic" when
\* reflect.TypeOf(x) is nil (x is nil) and Kind() is called on it
RECURSIVE validFrom(_, _, _)
validFrom(args, required, i) ==
    IF i > Len(required) THEN "true"
    ELSE IF required[i].Name \notin DOMAIN args THEN "false"
    ELSE IF args[required[i].Name].kind = "nil" THEN "panic"
    ELSE IF args[required[i].Name].kind # required[i].Kind THEN "false"
    ELSE validFrom(args, required, i + 1)

validArguments(args, required) == validFrom(args, required, 1)

\* unixsock.Response values
respMissingArgs ==
    [Status |-> "failure", Error |-> "Missing/invalid parameters",
     Payload |-> <<>>]
respEmpty == [Status |-> "", Error |-> "", Payload |-> <<>>]
respUnknown ==
    [Status |-> "failure", Error |-> "Execute: unknown command",
     Payload |-> <<>>]
\* no response: the goroutine panicked inside the command
respPanic == [Status |-> "panic", Error |-> "", Payload |-> <<>>]

respSuccess(payload) ==
    [Status |-> "success", Error |-> "", Payload |-> payload]

\* CmdTokensAdd: the store afterwards and the response
CmdTokensAdd(t, f, args, token) ==
    LET v == validArguments(args, RequiredAdd)
        service == args["service"].val
        instance == args["instance"].val
        r == AddTokenCall(t, f, service, instance, token, "none")
    IN IF v = "panic" THEN [tokens |-> t, file |-> f, resp |-> respPanic]
       ELSE IF v = "false"
       THEN [tokens |-> t, file |-> f, resp |-> respMissingArgs]
       ELSE IF r.err # "nil"
       THEN [tokens |-> r.tokens, file |-> r.file,
             resp |-> [Status |-> "failure",
                       Error |-> "Could not add token",
                       Payload |-> <<>>]]
       ELSE [tokens |-> r.tokens, file |-> r.file,
             resp |-> respSuccess(<< <<service, instance, r.token>> >>)]

\* CmdTokensRemoveInstance and CmdTokensRemoveService return an empty
\* response
CmdTokensRemoveInstance(t, f, args) ==
    [tokens |-> t, file |-> f, resp |-> respEmpty]

CmdTokensRemoveService(t, f, args) ==
    [tokens |-> t, file |-> f, resp |-> respEmpty]

\* CmdTokensListInstances, the loop over the mapping in the order the map
\* gives: a row for each two-part key of the service
RECURSIVE InstanceRows(_, _, _, _)
InstanceRows(t, order, service, i) ==
    IF i > Len(order) THEN <<>>
    ELSE LET parts == Split(order[i], SEP)
         IN IF Len(parts) = 2 /\ parts[1] = service
            THEN << <<parts[2], t[order[i]]>> >>
                    \o InstanceRows(t, order, service, i + 1)
            ELSE InstanceRows(t, order, service, i + 1)

CmdTokensListInstances(t, f, args, order) ==
    LET v == validArguments(args, RequiredListInstances)
        service == ToLower(args["service"].val)
    IN IF v = "panic" THEN [tokens |-> t, file |-> f, resp |-> respPanic]
       ELSE IF v = "false"
       THEN [tokens |-> t, file |-> f, resp |-> respMissingArgs]
       ELSE [tokens |-> t, file |-> f,
             resp |-> respSuccess(InstanceRows(t, order, service, 1))]

\* byte value of the characters that occur in keys
CharRank(c) ==
    IF c = TAB THEN 9 ELSE IF c = NL THEN 10 ELSE IF c = SEP THEN 47
    ELSE IF c = "1" THEN 49 ELSE IF c = "2" THEN 50
    ELSE IF c = "A" THEN 65 ELSE IF c = "B" THEN 66
    ELSE IF c = "a" THEN 97 ELSE 98

\* s < u for Go strings (bytewise)
RECURSIVE StrLess(_, _)
StrLess(s, u) ==
    IF Len(u) = 0 THEN FALSE
    ELSE IF Len(s) = 0 THEN TRUE
    ELSE IF CharRank(s[1]) # CharRank(u[1])
    THEN CharRank(s[1]) < CharRank(u[1])
    ELSE StrLess(Tail(s), Tail(u))

\* sort.Strings on a list without repetitions
RECURSIVE SortStrings(_)
SortStrings(list) ==
    IF Len(list) = 0 THEN <<>>
    ELSE LET m == CHOOSE i \in 1..Len(list) :
                    \A j \in 1..Len(list) : j # i => StrLess(list[i], list[j])
         IN <<list[m]>> \o
            SortStrings(SubSeq(list, 1, m - 1) \o
                        SubSeq(list, m + 1, Len(list)))

\* CmdTokensListServices, the loop of lines 226..237 over the keys in the
\* order the map gives: a service is entered with [2]int{} when first met;
\* counts is a copy of the array held by the map, and the incremented copy
\* is not stored back
RECURSIVE ServicesLoop(_, _, _, _)
ServicesLoop(order, i, serviceNames, services) ==
    IF i > Len(order)
    THEN [serviceNames |-> serviceNames, services |-> services]
    ELSE LET parts == Split(order[i], SEP)
             met == parts[1] \in DOMAIN services
             names2 == IF met THEN serviceNames
                       ELSE Append(serviceNames, parts[1])
             services2 == IF met THEN services
                          ELSE MapPut(services, parts[1], <<0, 0>>)
             counts == [services2[parts[1]] EXCEPT ![1] = @ + 1]
         IN IF Len(parts) # 2
            THEN ServicesLoop(order, i + 1, serviceNames, services)
            ELSE ServicesLoop(order, i + 1, names2, services2)

\* CmdTokensListServices: a row (name, instances, log entries) for each
\* service name, the names sorted
CmdTokensListServices(t, f, args, order) ==
    LET l == ServicesLoop(order, 1, <<>>, EmptyMap)
        sorted == SortStrings(l.serviceNames)
    IN [tokens |-> t, file |-> f,
        resp |-> respSuccess(
                   [n \in 1..Len(sorted) |->
                       <<sorted[n], l.services[sorted[n]][1],
                         l.services[sorted[n]][2]>>])]

\* Execute: the switch on the lower-cased command
ExecuteCall(t, f, cmd, args, token, order) ==
    LET c == ToLower(cmd)
    IN IF c = NameStatistics
       THEN [tokens |-> t, file |-> f, resp |-> respEmpty]
       ELSE IF c = NameTokensAdd THEN CmdTokensAdd(t, f, args, token)
       ELSE IF c = NameTokensRemoveInstance
       THEN CmdTokensRemoveInstance(t, f, args)
       ELSE IF c = NameTokensRemoveService
       THEN CmdTokensRemoveService(t, f, args)
       ELSE IF c = NameTokensListInstances
       THEN CmdTokensListInstances(t, f, args, order)
       ELSE IF c = NameTokensListServices
       THEN CmdTokensListServices(t, f, args, order)
       ELSE [tokens |-> t, file |-> f, resp |-> respUnknown]

\* a control-plane client has Execute(cmd, args) run; token is the digest
\* AddToken would draw
Execute(cmd, args, token) ==
    /\ ret = NoRet
    /\ \E order \in Orders(DOMAIN tokens) :
          LET r == ExecuteCall(tokens, file, cmd, args, token, order)
          IN /\ Cardinality(DOMAIN r.tokens) <= MaxTokens
             /\ tokens' = r.tokens
             /\ file' = r.file
             /\ ret' = [op |-> "Execute", cmd |-> cmd, args |-> args,
                        resp |-> r.resp]
    /\ hist' = "mixed"
    /\ UNCHANGED <<nfaults, nlogged, nrestarts, concVars, lifeVars>>

\* the console and the store it works on
NextConsole ==
    \/ \E cmd \in Commands, args \in ArgBags, tk \in Tokens :
          Execute(cmd, args, tk)
    \/ \E s \in AuthNames, i \in AuthNames : RemoveToken(s, i, "none")
    \/ Return

SpecConsole == Init /\ [][NextConsole]_vars

\* the call Execute(cmd, args) has just returned or faulted
Executed(name) == ret'.op = "Execute" /\ ToLower(ret'.cmd) = name

\* C14: an Execute of tokens.add or tokens.list.instances whose argument
\* bag lacks a required argument, or holds a value for it that is not a
\* string, answers 'Missing/invalid parameters' and leaves the store alone.
C14_InvalidArgumentsRejected ==
    [][ \A name \in {NameTokensAdd, NameTokensListInstances} :
          LET required == IF name = NameTokensAdd
                          THEN {"service", "instance"} ELSE {"service"}
          IN (/\ ret = NoRet
              /\ Executed(name)
              /\ \E a \in required :
                    \/ a \notin DOMAIN ret'.args
                    \/ ret'.args[a].kind # "string")
             => /\ ret'.resp = respMissingArgs
                /\ tokens' = tokens
                /\ file' = file ]_vars

\* the keys stored under the service of the given (lower-case) name
KeysOfService(t, name) == { k \in DOMAIN t : Split(k, SEP)[1] = name }

\* the services that hold at least one token
ServicesHeld(t) == { Split(k, SEP)[1] : k \in DOMAIN t }

\* C15: the answer of tokens.list.services has one row for each service
\* that holds a token and no other row, and the row's instance count is
\* the number of tokens stored under the service.
C15_ListServicesCounts ==
    [][ (ret = NoRet /\ Executed(NameTokensListServices)) =>
          LET rows == ret'.resp.Payload
          IN /\ ret'.resp.Status = "success"
             /\ { rows[n][1] : n \in 1..Len(rows) } = ServicesHeld(tokens)
             /\ Len(rows) = Cardinality(ServicesHeld(tokens))
             /\ \A n \in 1..Len(rows) :
                   rows[n][2] =
                       Cardinality(KeysOfService(tokens, rows[n][1])) ]_vars

\* the argument is present and is a string
IsString(args, a) == a \in DOMAIN args /\ args[a].kind = "string"

\* C16: after tokens.remove.service for a service named by a string, the
\* store holds no token of that service, tokens.list.services would not
\* report it and Authorize denies each of its instances as UnknownIdentity;
\* after tokens.remove.instance for a named pair the store does not hold
\* that pair's key.
C16_RemoveCommandsRemove ==
    [][ /\ (/\ ret = NoRet
            /\ Executed(NameTokensRemoveService)
            /\ IsString(ret'.args, "service"))
           => LET s == ret'.args["service"].val
              IN /\ KeysOfService(tokens', ToLower(s)) = {}
                 /\ \A i \in AuthNames, tk \in PresentedTokens :
                       Authorize(Ctx(s, i, tk), tokens') = "UnknownIdentity"
        /\ (/\ ret = NoRet
            /\ Executed(NameTokensRemoveInstance)
            /\ IsString(ret'.args, "service")
            /\ IsString(ret'.args, "instance"))
           => getCleanKey(ret'.args["service"].val,
                          ret'.args["instance"].val) \notin DOMAIN tokens'
      ]_vars

----------------------------------------------------------------------------
(* The token store when file operations fail *)

\* the keys for which tokens.db holds a record
FileKeys(f) ==
    LET lines == ScanLines(f)
    IN { Split(lines[n], TAB)[1] : n \in 1..Len(lines) }

\* C17: an AddToken that returns the error of writeTokenToFile leaves the
\* mapping and the file as they were, and the file holds no record for the
\* key of the call.
C17_FailedAddLeavesNoTrace ==
    [][ (ret = NoRet /\ ret'.op = "AddToken" /\ ret'.err = "IOFailure")
          => /\ tokens' = tokens
             /\ file' = file
             /\ FoldedKey(ret'.service, ret'.instance) \notin FileKeys(file')
      ]_vars

----------------------------------------------------------------------------
(* Store mutations and authorization, one call after the other *)

NextOrder ==
    \/ NextAuth
    \/ \E s \in AuthNames : RemoveTokens(s, "none")

SpecOrder == Init /\ [][NextOrder]_vars

\* the step is the return of a successful call of op
Succeeded(op) == ret = NoRet /\ ret'.op = op /\ ret'.err = "nil"

\* C18: from the return of a successful AddToken on, an Authorize with the
\* pair and the returned token succeeds; from the return of a successful
\* RemoveToken of a pair, or RemoveTokens of its service, on, an Authorize
\* for the pair is denied as UnknownIdentity; only these three calls change
\* what Authorize reads, and an RPC is decided by the store as it is when
\* Authorize runs.
C18_MutationThenAuthorize ==
    [][ /\ Succeeded("AddToken") =>
              Authorize(Ctx(ret'.service, ret'.instance, ret'.token),
                        tokens') = "nil"
        /\ Succeeded("RemoveToken") =>
              \A tk \in PresentedTokens :
                 Authorize(Ctx(ret'.service, ret'.instance, tk), tokens')
                    = "UnknownIdentity"
        /\ Succeeded("RemoveTokens") =>
              \A i \in AuthNames, tk \in PresentedTokens :
                 Authorize(Ctx(ret'.service, i, tk), tokens')
                    = "UnknownIdentity"
        /\ (ret = NoRet /\ ret'.op = "Rpc") =>
              /\ ret'.invoked = (Authorize(ret'.ctx, tokens) = "nil")
              /\ tokens' = tokens
        /\ ret # NoRet => tokens' = tokens ]_vars

----------------------------------------------------------------------------
(* Tasks that read the mapping: RPCs and control-plane list commands
   running beside the callers of the token store *)

\* contexts of the RPCs that run beside the store's callers
ConcContexts ==
    { Ctx(s, i, tk) : s \in ConcServices, i \in ConcInstances,
                      tk \in Tokens }

\* the list commands, with the argument bag they are sent with
ListCommands == { NameTokensListInstances, NameTokensListServices }
ListArgs == [service |-> [kind |-> "string", val |-> <<"a">>]]

\* an RPC arrives: the interceptor calls Authorize(ctx)
CallAuthorize(p, ctx) ==
    /\ ~crashed
    /\ pc[p] = "idle"
    /\ ncalls[p] < MaxCalls
    /\ ncalls' = [ncalls EXCEPT ![p] = @ + 1]
    /\ pc' = [pc EXCEPT ![p] = "auth_read"]
    /\ loc' = [loc EXCEPT ![p] = [op |-> "Authorize", ctx |-> ctx,
                                  err |-> "pending", underLock |-> FALSE]]
    /\ UNCHANGED <<tokens, file, hist, lock, okAdds, committed, crashed>>
    /\ concFrame

\* Authorize, line 79: realToken, ok := l.tokens[key], no l.Lock() before
AuthorizeRead(p) ==
    /\ ~crashed
    /\ pc[p] = "auth_read"
    /\ loc' = [loc EXCEPT ![p].err = Authorize(loc[p].ctx, tokens),
                          ![p].underLock = lock \notin {NoHolder, p}]
    /\ pc' = [pc EXCEPT ![p] = "done"]
    /\ UNCHANGED <<tokens, file, hist, lock, okAdds, committed, crashed>>
    /\ stepFrame

\* a control-plane client has a list command executed
CallList(p, cmd) ==
    /\ ~crashed
    /\ pc[p] = "idle"
    /\ ncalls[p] < MaxCalls
    /\ ncalls' = [ncalls EXCEPT ![p] = @ + 1]
    /\ pc' = [pc EXCEPT ![p] = "list_read"]
    /\ loc' = [loc EXCEPT ![p] = [op |-> "Execute", cmd |-> cmd,
                                  resp |-> respEmpty, underLock |-> FALSE]]
    /\ UNCHANGED <<tokens, file, hist, lock, okAdds, committed, crashed>>
    /\ concFrame

\* CmdTokensListInstances, line 201, and CmdTokensListServices, line 226:
\* the range over m.logserver.tokens, no Lock() before
ListRead(p) ==
    /\ ~crashed
    /\ pc[p] = "list_read"
    /\ \E order \in Orders(DOMAIN tokens) :
          loc' = [loc EXCEPT
                    ![p].resp = ExecuteCall(tokens, file, loc[p].cmd,
                                            ListArgs, <<"1">>, order).resp,
                    ![p].underLock = lock \notin {NoHolder, p}]
    /\ pc' = [pc EXCEPT ![p] = "done"]
    /\ UNCHANGED <<tokens, file, hist, lock, okAdds, committed, crashed>>
    /\ stepFrame

NextAccess ==
    \/ NextConc
    \/ \E p \in Procs :
          \/ \E ctx \in ConcContexts : CallAuthorize(p, ctx)
          \/ AuthorizeRead(p)
          \/ \E cmd \in ListCommands : CallList(p, cmd)
          \/ ListRead(p)

SpecAccess == Init /\ [][NextAccess]_vars

\* the next step of the task reads or writes l.tokens
AtAccess(p) ==
    pc[p] \in {"add_check", "add_store", "get_copy", "rm_body",
               "rms_collect", "rms_loop", "auth_read", "list_read"}

\* C19: a task that is about to read or write the mapping holds the mutex,
\* and no task has read the mapping while another task held the mutex.
C19_AccessUnderLock ==
    \A p \in Procs :
        /\ AtAccess(p) => lock = p
        /\ loc[p].op \in {"Authorize", "Execute", "GetTokens"}
              => ~loc[p].underLock

----------------------------------------------------------------------------
(* Start of the control plane relative to the rest of New *)

\* C20: a HandleUnixRequest task is started only when New has bound the tcp
\* listener and has set the server's fields (token mapping, listeners, gRPC
\* server).
C20_DispatchAfterInit ==
    [][ srv'.handlers > srv.handlers =>
          srv.listenTCP = "open" /\ srv.inited ]_vars

----------------------------------------------------------------------------
(* What New leaves behind when it returns an error *)

\* no goroutine of New is running
TasksStopped ==
    \A t \in {"accept", "dispatch", "serve", "watchdog", "stopper"} :
        task[t] \in {"none", "exited", "done"}

\* C21: once New has returned an error no listener is open, and the
\* goroutines New started are eventually all stopped (they are stopped too
\* when the process has exited).
C21_FailedNewLeavesNothing ==
    /\ [](task["new"] = "failed" =>
             srv.listenUnix # "open" /\ srv.listenTCP # "open")
    /\ (task["new"] = "failed") ~> (srv.exited \/ TasksStopped)

====
